---- MODULE Spec2Model ----
(***************************************************************************)
(* Model of alch: the date-range splitter (alch/utils/time.py) and the     *)
(* Tushare data source (alch/data/source/tushare.py).                      *)
(*                                                                         *)
(* A pd.Timestamp that carries a calendar date is the number of days since *)
(* 1970-01-01; a pd.Timedelta of N days is the integer N.  An Optional     *)
(* argument is None (the empty tuple) or Some(x) (a one-element tuple).    *)
(* A str that the code inspects character by character (symbol, ts_code)  *)
(* is a sequence of one-character strings.                                 *)
(***************************************************************************)
EXTENDS Integers, Sequences, FiniteSets, TLC

(* ------------------------------ bounds -------------------------------- *)
\* fetch: the supplied end_date reaches into the MaxChunks-th 1min chunk
\* counted from 2010-01-01, and lies within MaxSlack days of a chunk start
MaxSlack == 0
MaxChunks == 3
\* fetch: the supplied start_date ranges up to MaxStart days after 2010-01-01
MaxStart == 0
\* direct split_date_range calls: dates within MaxSplitSpan days of 2010-01-01
MaxSplitSpan == 6
\* direct split_date_range calls: period of 0..MaxPeriod days
MaxPeriod == 3
\* direct convert_symbol calls: symbols of 0..MaxSymbolLen characters
MaxSymbolLen == 3
\* repeated split_date_range calls: at most MaxSplitCalls calls in a row, with
\* dates within MaxRepeatSpan days of 2010-01-01 and periods up to that
MaxSplitCalls == 3
MaxRepeatSpan == 1

(* ----------------------------- Optional ------------------------------- *)
None == <<>>
Some(x) == <<x>>
IsNone(o) == o = <<>>
Value(o) == o[1]

Min(a, b) == IF a <= b THEN a ELSE b

(* --------------------- calendar (pandas Timestamp) --------------------- *)
\* days since 1970-01-01 of the civil date y-m-d (proleptic Gregorian)
days_from_civil(y, m, d) ==
    LET yy  == IF m <= 2 THEN y - 1 ELSE y
        era == yy \div 400
        yoe == yy - era * 400
        mp  == IF m > 2 THEN m - 3 ELSE m + 9
        doy == (153 * mp + 2) \div 5 + d - 1
        doe == yoe * 365 + yoe \div 4 - yoe \div 100 + doy
    IN  era * 146097 + doe - 719468

\* <<year, month, day>> of the date z days after 1970-01-01
civil_from_days(z) ==
    LET zz  == z + 719468
        era == zz \div 146097
        doe == zz - era * 146097
        yoe == (doe - doe \div 1460 + doe \div 36524 - doe \div 146096) \div 365
        doy == doe - (365 * yoe + yoe \div 4 - yoe \div 100)
        mp  == (5 * doy + 2) \div 153
        d   == doy - (153 * mp + 2) \div 5 + 1
        m   == IF mp < 10 THEN mp + 3 ELSE mp - 9
        y   == yoe + era * 400
    IN  << IF m <= 2 THEN y + 1 ELSE y, m, d >>

\* date.strftime("%Y%m%d"): the text YYYYMMDD, read as a decimal number
strftime_Ymd(date) ==
    LET c == civil_from_days(date) IN c[1] * 10000 + c[2] * 100 + c[3]

\* pd.to_datetime(text, format="%Y%m%d"): the date of the text YYYYMMDD
to_datetime_Ymd(text) ==
    days_from_civil(text \div 10000, (text \div 100) % 100, text % 100)

\* pd.Timestamp("2010-01-01")
FloorDate == days_from_civil(2010, 1, 1)

(* ------------------------ alch/utils/time.py -------------------------- *)
\* pd.Timedelta(days=1)
OneDay == 1

\* variant of NewPeriods that keeps the list of the previous call (a list
\* shared between calls)
NewPeriodsShared(old) == old

\* line 21: periods: List[...] = [], a fresh list at every call, whatever
\* list old an earlier call has built
NewPeriods(old) == << >>

\* variant of SplitContinues that stops before the last day
SplitContinuesStrict(current, end) == current < end

\* line 23: the loop condition
SplitContinues(current, end) == current <= end

\* variant of PeriodEnd that does not clip the period at end_date
PeriodEndUnclipped(period_start, end, per) == period_start + per

\* line 25: period_end = min(end_date, period_start + period)
PeriodEnd(period_start, end, per) == Min(end, period_start + per)

\* variant of NextCurrent that skips a day between two periods
NextCurrentSkipsDay(period_end) == period_end + OneDay + OneDay

\* line 27: current_date = period_end + pd.Timedelta(days=1)
NextCurrent(period_end) == period_end + OneDay

(* -------------------- alch/data/source/tushare.py ---------------------- *)
\* variant of RetryTries with one attempt less
RetryTriesOneLess == 5 - 1

\* variant of RetryTries with one attempt more
RetryTriesOneMore == 5 + 1

\* @retry(tries=5, delay=10)
RetryTries == 5
RetryDelay == 10

\* symbol.startswith("6")
startswith6(symbol) == Len(symbol) >= 1 /\ symbol[1] = "6"

\* variant of convert_symbol that looks for a "6" anywhere in the symbol
convert_symbol_any6(symbol) ==
    IF \E i \in 1 .. Len(symbol) : symbol[i] = "6"
    THEN symbol \o << ".", "S", "H" >>
    ELSE symbol \o << ".", "S", "Z" >>

\* convert_symbol: "{}.SH".format(symbol) or "{}.SZ".format(symbol)
convert_symbol(symbol) ==
    IF startswith6(symbol)
    THEN symbol \o << ".", "S", "H" >>
    ELSE symbol \o << ".", "S", "Z" >>

\* convert_date: date.strftime("%Y%m%d")
convert_date(date) == strftime_Ymd(date)

\* A text "YYYY-MM-DD HH:MM:00" is the pair << YYYYMMDD, HHMM >> of decimal
\* numbers; texts of this form compare as str by comparing the pairs
TextLess(a, b) == a[1] < b[1] \/ (a[1] = b[1] /\ a[2] < b[2])
TextLeq(a, b) == a = b \/ TextLess(a, b)

\* start_date.strftime("%Y-%m-%d 09:00:00")
strftime_start(date) == << strftime_Ymd(date), 900 >>

\* end_date.strftime("%Y-%m-%d 17:00:00")
strftime_end(date) == << strftime_Ymd(date), 1700 >>

\* pd.to_datetime of a text "YYYY-MM-DD HH:MM:00": minutes since 1970-01-01
to_datetime_stamp(text) ==
    to_datetime_Ymd(text[1]) * 1440 + (text[2] \div 100) * 60 + (text[2] % 100)

\* pd.Timestamp.now().floor("D"), the clock read in minutes since 1970-01-01
floor_D(now) == now \div 1440

\* ts_code.str.slice(0, 6)
str_slice_0_6(s) == SubSeq(s, 1, Min(6, Len(s)))

\* variant of Dispatch without the default case: every other dataset goes
\* to the last handler
DispatchNoDefault(dataset) ==
    IF dataset \in {"history", "ohlcv"}
    THEN "fetch_historical_data"
    ELSE "fetch_adjust_factor"

\* the match statement of fetch
Dispatch(dataset) ==
    CASE dataset \in {"history", "ohlcv"} -> "fetch_historical_data"
      [] dataset = "adjust_factor" -> "fetch_adjust_factor"
      [] OTHER -> "ValueError"

\* the assert statements of fetch_historical_data: the first one that fails
FailedAssert(a) ==
    CASE IsNone(a.symbol) -> "symbol is not None"
      [] ~ IsNone(a.symbol) /\ IsNone(a.frequency) -> "frequency is not None"
      [] ~ IsNone(a.symbol) /\ ~ IsNone(a.frequency) /\ ~ IsNone(a.fields)
            -> "fields is None"
      [] ~ IsNone(a.symbol) /\ ~ IsNone(a.frequency) /\ IsNone(a.fields)
            /\ ~ IsNone(a.trade_date) -> "trade_date is None"
      [] OTHER -> "none"

\* start_date = pd.Timestamp("2010-01-01") if start_date is None else start_date
DefaultStart(sd) == IF IsNone(sd) THEN FloorDate ELSE Value(sd)

\* end_date = pd.Timestamp.now().floor("D") if end_date is None else end_date
DefaultEnd(ed, now) == IF IsNone(ed) THEN floor_D(now) ELSE Value(ed)

\* variant of FrequencyCase without the default case: every other frequency
\* is fetched as daily
FrequencyCaseNoDefault(frequency) ==
    IF frequency \in {"1min", "5min", "15min", "30min", "60min"}
    THEN "fetch_historical_data_high_freq"
    ELSE "fetch_historical_data_daily"

\* the match statement of fetch_historical_data
FrequencyCase(frequency) ==
    CASE frequency = "daily" -> "fetch_historical_data_daily"
      [] frequency \in {"1min", "5min", "15min", "30min", "60min"}
            -> "fetch_historical_data_high_freq"
      [] OTHER -> "ValueError"

\* int(re.match(r"(\d+)min", frequency).group(1))
num_minutes(frequency) ==
    CASE frequency = "1min" -> 1
      [] frequency = "5min" -> 5
      [] frequency = "15min" -> 15
      [] frequency = "30min" -> 30
      [] frequency = "60min" -> 60

\* variant of max_days_per_iteration that divides by the minutes of a day
\* before it scales by the bar length
max_days_per_iteration_scaled(frequency) ==
    (10000 \div 240) * num_minutes(frequency)

\* max_days_per_iteration = 10000 // (240 // num_minutes)
max_days_per_iteration(frequency) ==
    10000 \div (240 \div num_minutes(frequency))

(* ---- the provider (tushare): what a call returns when it succeeds ---- *)
\* the exchange is open Monday to Friday (1970-01-01 was a Thursday)
IsTradingDay(d) == (d + 3) % 7 < 5

\* the trading days of [lo, hi], latest first
TradingDaysDesc(lo, hi) ==
    SelectSeq([ i \in 1 .. (hi - lo + 1) |-> hi - i + 1 ], IsTradingDay)

\* the bars of one day, latest first, as HHMM
BarTimesDesc == << 1500, 1030 >>

\* the raw vol (lots) and amount (thousands) the provider reports for day d
raw_vol(d) == 1 + (d % 3)
raw_amount(d) == 1 + (d % 2)

RawBar(ts_code, d, t) ==
    [ ts_code |-> ts_code,
      trade_date |-> strftime_Ymd(d),
      trade_time |-> << strftime_Ymd(d), t >>,
      vol |-> raw_vol(d),
      amount |-> raw_amount(d) ]

\* tushare.pro_bar: the bars with start_date <= trade_time <= end_date,
\* latest first
pro_bar(req) ==
    LET days == TradingDaysDesc(to_datetime_Ymd(req.start_date[1]),
                                to_datetime_Ymd(req.end_date[1]))
        nb   == Len(BarTimesDesc)
        bars == [ i \in 1 .. Len(days) * nb |->
                    RawBar(req.ts_code, days[(i - 1) \div nb + 1],
                           BarTimesDesc[((i - 1) % nb) + 1]) ]
    IN  SelectSeq(bars, LAMBDA r : /\ TextLeq(req.start_date, r.trade_time)
                                   /\ TextLeq(r.trade_time, req.end_date))

\* api.daily: one row per trading day of [start_date, end_date], latest first
api_daily(req) ==
    LET days == TradingDaysDesc(to_datetime_Ymd(req.start_date),
                                to_datetime_Ymd(req.end_date))
    IN  [ i \in 1 .. Len(days) |->
            [ ts_code |-> req.ts_code,
              trade_date |-> strftime_Ymd(days[i]),
              vol |-> raw_vol(days[i]),
              amount |-> raw_amount(days[i]) ] ]

\* api.adj_factor: one row per trading day of [start_date, end_date],
\* latest first
api_adj_factor(req) ==
    LET days == TradingDaysDesc(to_datetime_Ymd(req.start_date),
                                to_datetime_Ymd(req.end_date))
    IN  [ i \in 1 .. Len(days) |->
            [ ts_code |-> req.ts_code,
              trade_date |-> strftime_Ymd(days[i]),
              adj_factor |-> 1 + (days[i] % 2) ] ]

(* ------------- sorting and the canonical frame of a chunk -------------- *)
\* data.sort_values(by="trade_date"); data.reset_index(drop=True)
sort_by_trade_date(data) ==
    SortSeq(data, LAMBDA a, b : a.trade_date < b.trade_date)

\* data.sort_values(by="trade_time"); data.reset_index(drop=True)
sort_by_trade_time(data) ==
    SortSeq(data, LAMBDA a, b : TextLess(a.trade_time, b.trade_time))

\* the pd.DataFrame built by fetch_historical_data_daily
DailyFrame(data) ==
    [ i \in 1 .. Len(data) |->
        [ symbol |-> str_slice_0_6(data[i].ts_code),
          date |-> to_datetime_Ymd(data[i].trade_date),
          volume |-> data[i].vol * 100,
          amount |-> data[i].amount * 1000 ] ]

\* the pd.DataFrame built by fetch_historical_data_high_freq
HighFreqFrame(data) ==
    [ i \in 1 .. Len(data) |->
        [ symbol |-> str_slice_0_6(data[i].ts_code),
          date |-> to_datetime_Ymd(data[i].trade_date),
          time |-> to_datetime_stamp(data[i].trade_time),
          volume |-> data[i].vol,
          amount |-> data[i].amount ] ]

\* the pd.DataFrame built by fetch_adjust_factor
AdjustFactorFrame(data) ==
    [ i \in 1 .. Len(data) |->
        [ symbol |-> str_slice_0_6(data[i].ts_code),
          date |-> to_datetime_Ymd(data[i].trade_date),
          adj_factor |-> data[i].adj_factor ] ]

\* variant of concat that puts the later frames first
RECURSIVE concat_reversed(_)
concat_reversed(fs) ==
    IF fs = << >> THEN << >> ELSE concat_reversed(Tail(fs)) \o Head(fs)

\* pd.concat(frames): the rows of the frames, in the order of the list
RECURSIVE concat(_)
concat(fs) == IF fs = << >> THEN << >> ELSE Head(fs) \o concat(Tail(fs))

(* ------------------------- exceptions, requests ------------------------ *)
Exception(type, msg, chunk, attempt) ==
    [ type |-> type, msg |-> msg, chunk |-> chunk, attempt |-> attempt ]

NoException == Exception("none", << >>, 0, 0)

\* variant of ChunkArgs that hands every chunk the end of the whole range
ChunkArgsWholeEnd(ps, i) == << Some(ps[i][1]), Some(ps[Len(ps)][2]) >>

\* the (start, end) handed to fetch_historical_data_high_freq for the idx-th
\* element of the list comprehension
ChunkArgs(ps, i) == << Some(ps[i][1]), Some(ps[i][2]) >>

\* variant of MoreChunks that stops one element early
MoreChunksOneShort(ps, i) == i + 1 < Len(ps)

\* the list comprehension has a further element after the idx-th
MoreChunks(ps, i) == i < Len(ps)

\* the arguments of the provider call made by the decorated method h
ProviderRequest(h, symbol, freq, s, e) ==
    CASE h = "fetch_historical_data_daily" ->
            [ api |-> "daily", ts_code |-> convert_symbol(symbol),
              start_date |-> convert_date(s), end_date |-> convert_date(e),
              freq |-> None ]
      [] h = "fetch_historical_data_high_freq" ->
            [ api |-> "pro_bar", ts_code |-> convert_symbol(symbol),
              start_date |-> strftime_start(s), end_date |-> strftime_end(e),
              freq |-> freq ]
      [] h = "fetch_adjust_factor" ->
            [ api |-> "adj_factor", ts_code |-> convert_symbol(symbol),
              start_date |-> convert_date(s), end_date |-> convert_date(e),
              freq |-> None ]

\* the rows the provider returns for a request
ProviderResponse(req) ==
    CASE req.api = "daily" -> api_daily(req)
      [] req.api = "pro_bar" -> pro_bar(req)
      [] req.api = "adj_factor" -> api_adj_factor(req)

\* the frame the decorated method h returns for the rows of the provider
Frame(h, data) ==
    CASE h = "fetch_historical_data_daily" ->
            DailyFrame(sort_by_trade_date(data))
      [] h = "fetch_historical_data_high_freq" ->
            HighFreqFrame(sort_by_trade_time(data))
      [] h = "fetch_adjust_factor" ->
            AdjustFactorFrame(sort_by_trade_date(data))

VARIABLES
    pc,            \* position of the one (synchronous) caller
    caller,        \* "none", "split" or "convert_symbol" (direct calls) or
                   \* "fetch"
    args,          \* the arguments of the call
    start_date,    \* split_date_range / fetch_historical_data: start_date
    end_date,      \* split_date_range / fetch_historical_data: end_date
    period,        \* split_date_range: period (days)
    current_date,  \* split_date_range: current_date
    periods,       \* split_date_range: periods
    split_returned,\* split_date_range has returned periods
    handler,       \* the @retry-decorated method fetch runs, or "none"
    idx,           \* position in the list comprehension (1 for one call)
    tries,         \* retry: _tries
    attempt_no,    \* invocations of the decorated method for this idx
    frames,        \* the frames the list comprehension has collected
    calls,         \* log of the provider calls for this idx, with outcome
    served,        \* the provider call that succeeded, for each idx so far
    ncalls,        \* number of provider calls issued
    nfailed,       \* number of provider calls that failed
    slept,         \* seconds spent in time.sleep
    now_read,      \* what pd.Timestamp.now() returned, None if not called
    result,        \* the value returned to the caller
    error,         \* the exception raised to the caller
    nsplit,        \* direct split_date_range calls made so far
    first_call     \* arguments and result of the first of several direct
                   \* split_date_range calls, None before the second call

vars == << pc, caller, args, start_date, end_date, period, current_date,
           periods, split_returned, handler, idx, tries, attempt_no, frames,
           calls, served, ncalls, nfailed, slept, now_read, result, error,
           nsplit, first_call >>

splitVars == << start_date, end_date, period, current_date, periods,
                split_returned >>
retryVars == << handler, idx, tries, attempt_no, frames, calls, served,
               ncalls, nfailed, slept >>
callVars == << nsplit, first_call >>

(* ------------------------------- inputs -------------------------------- *)
SplitDates == FloorDate .. (FloorDate + MaxSplitSpan)

\* the arguments (start_date, end_date, days of period) of the calls that
\* may follow one another
RepeatArgs ==
    { << s, e, n >> : s \in FloorDate .. (FloorDate + MaxRepeatSpan),
                      e \in FloorDate .. (FloorDate + MaxRepeatSpan),
                      n \in 0 .. MaxRepeatSpan }

\* the symbols of direct convert_symbol calls: the texts of up to
\* MaxSymbolLen characters, the empty text included
SymbolChars == {"6", "0", "3"}
SymbolTexts == UNION { [ 1 .. n -> SymbolChars ] : n \in 0 .. MaxSymbolLen }

SYM_SH == << "6", "0", "0", "0", "0", "0" >>
SYM_SZ == << "0", "0", "0", "0", "0", "1" >>

Datasets == {"history", "ohlcv", "adjust_factor", "nonexistent"}
Symbols == {None, Some(SYM_SH), Some(SYM_SZ)}
Frequencies ==
    {None} \cup { Some(f) : f \in {"daily", "1min", "5min", "15min", "30min",
                                   "60min", "3min"} }
StartDates ==
    {None} \cup { Some(d) : d \in (FloorDate - 1) .. (FloorDate + MaxStart) }
\* end dates around the multiples of the shortest chunk length (1min)
EndDates ==
    {None} \cup
    { Some(FloorDate + k * (max_days_per_iteration("1min") + 1) + j) :
        k \in 0 .. MaxChunks - 1, j \in (0 - 1) .. MaxSlack }
TradeDates == {None, Some(FloorDate)}
Fields == {None, Some(<< "close" >>)}

\* the calls of fetch: a call that supplies trade_date or fields leaves
\* start_date and end_date out
FetchArgs ==
    { a \in [ dataset : Datasets, symbol : Symbols, start_date : StartDates,
              end_date : EndDates, trade_date : TradeDates,
              frequency : Frequencies, fields : Fields ] :
        (~ IsNone(a.trade_date) \/ ~ IsNone(a.fields)) =>
            (IsNone(a.start_date) /\ IsNone(a.end_date)) }

\* what pd.Timestamp.now() may read: a moment of the last day of the model,
\* in minutes since 1970-01-01
NowTimes ==
    { (FloorDate + (MaxChunks - 1) * (max_days_per_iteration("1min") + 1))
        * 1440 + m : m \in {0, 615} }

Init ==
    /\ pc = "idle"
    /\ caller = "none"
    /\ args = << >>
    /\ start_date = None
    /\ end_date = None
    /\ period = 0
    /\ current_date = 0
    /\ periods = << >>
    /\ split_returned = FALSE
    /\ handler = "none"
    /\ idx = 0
    /\ tries = 0
    /\ attempt_no = 0
    /\ frames = << >>
    /\ calls = << >>
    /\ served = << >>
    /\ ncalls = 0
    /\ nfailed = 0
    /\ slept = 0
    /\ now_read = None
    /\ result = << >>
    /\ error = NoException
    /\ nsplit = 0
    /\ first_call = None

(* ------------------------- split_date_range ---------------------------- *)
\* a direct call split_date_range(s, e, pd.Timedelta(days=n)): lines 21-22
SplitCall ==
    /\ pc = "idle"
    /\ \E s \in SplitDates, e \in SplitDates, n \in 0 .. MaxPeriod :
         /\ args' = << s, e, n >>
         /\ start_date' = Some(s)
         /\ end_date' = Some(e)
         /\ period' = n
         /\ current_date' = s
    /\ caller' = "split"
    /\ periods' = NewPeriods(periods)
    /\ pc' = "split_loop"
    /\ nsplit' = 1
    /\ UNCHANGED << split_returned, retryVars, now_read, result, error,
                    first_call >>

\* a further direct call of split_date_range after an earlier one returned;
\* the caller keeps the arguments and the result of the first call
SplitCallAgain ==
    /\ pc = "returned"
    /\ caller = "split"
    /\ nsplit < MaxSplitCalls
    /\ args \in RepeatArgs
    /\ first_call' = IF IsNone(first_call)
                     THEN Some([ args |-> args, result |-> result ])
                     ELSE first_call
    /\ nsplit' = nsplit + 1
    /\ \E a \in RepeatArgs :
         /\ args' = a
         /\ start_date' = Some(a[1])
         /\ end_date' = Some(a[2])
         /\ period' = a[3]
         /\ current_date' = a[1]
    /\ periods' = NewPeriods(periods)
    /\ split_returned' = FALSE
    /\ result' = << >>
    /\ pc' = "split_loop"
    /\ UNCHANGED << caller, retryVars, now_read, error >>

\* one iteration of the while loop: lines 23-27
SplitIter ==
    /\ pc = "split_loop"
    /\ SplitContinues(current_date, Value(end_date))
    /\ LET period_start == current_date
           period_end == PeriodEnd(period_start, Value(end_date), period)
       IN  /\ periods' = Append(periods, << period_start, period_end >>)
           /\ current_date' = NextCurrent(period_end)
    /\ UNCHANGED << pc, caller, args, start_date, end_date, period,
                    split_returned, retryVars, now_read, result, error,
                    callVars >>

\* the loop ends and split_date_range returns periods (lines 23, 28): to the
\* direct caller, or to the list comprehension of fetch_historical_data,
\* which starts with the first chunk; pd.concat of an empty list raises
SplitReturn ==
    /\ pc = "split_loop"
    /\ ~ SplitContinues(current_date, Value(end_date))
    /\ split_returned' = TRUE
    /\ IF caller = "split"
       THEN /\ pc' = "returned"
            /\ result' = periods
            /\ UNCHANGED << retryVars, error >>
       ELSE IF periods = << >>
       THEN /\ pc' = "raised"
            /\ error' = Exception("ValueError",
                                  << "No objects to concatenate" >>, 0, 0)
            /\ UNCHANGED << retryVars, result >>
       ELSE /\ pc' = "attempt"
            /\ idx' = 1
            /\ tries' = RetryTries
            /\ attempt_no' = 0
            /\ UNCHANGED << handler, frames, calls, served, ncalls, nfailed,
                            slept, result, error >>
    /\ UNCHANGED << caller, args, start_date, end_date, period, current_date,
                    periods, now_read, callVars >>

(* -------------------------------- fetch -------------------------------- *)
\* fetch(dataset, **a) up to the first invocation of a decorated method or
\* of split_date_range: tushare.py lines 42-57 and 134-160
Fetch ==
    /\ pc = "idle"
    /\ caller' = "fetch"
    /\ UNCHANGED callVars
    /\ \E a \in FetchArgs, now \in NowTimes :
         /\ args' = a
         /\ CASE Dispatch(a.dataset) = "ValueError" ->
                   /\ pc' = "raised"
                   /\ error' = Exception("ValueError",
                          << "unsupported dataset: ", a.dataset >>, 0, 0)
                   /\ UNCHANGED << splitVars, retryVars, now_read, result >>
              [] Dispatch(a.dataset) = "fetch_adjust_factor" ->
                   /\ handler' = "fetch_adjust_factor"
                   /\ start_date' = a.start_date
                   /\ end_date' = a.end_date
                   /\ pc' = "attempt"
                   /\ idx' = 1
                   /\ tries' = RetryTries
                   /\ attempt_no' = 0
                   /\ UNCHANGED << period, current_date, periods,
                                   split_returned, frames, calls, served,
                                   ncalls, nfailed, slept, now_read,
                                   result, error >>
              [] Dispatch(a.dataset) = "fetch_historical_data" ->
                   IF FailedAssert(a) # "none"
                   THEN /\ pc' = "raised"
                        /\ error' = Exception("AssertionError",
                                              << FailedAssert(a) >>, 0, 0)
                        /\ UNCHANGED << splitVars, retryVars, now_read,
                                        result >>
                   ELSE
                   LET sd == DefaultStart(a.start_date)
                       ed == DefaultEnd(a.end_date, now)
                       fc == FrequencyCase(Value(a.frequency))
                   IN  /\ start_date' = Some(sd)
                       /\ end_date' = Some(ed)
                       /\ now_read' = IF IsNone(a.end_date) THEN Some(now)
                                      ELSE None
                       /\ CASE fc = "fetch_historical_data_daily" ->
                                 /\ handler' = fc
                                 /\ pc' = "attempt"
                                 /\ idx' = 1
                                 /\ tries' = RetryTries
                                 /\ attempt_no' = 0
                                 /\ UNCHANGED << period, current_date,
                                        periods, split_returned, frames,
                                        calls, served, ncalls, nfailed,
                                        slept, result, error >>
                            [] fc = "fetch_historical_data_high_freq" ->
                                 /\ handler' = fc
                                 /\ period' = max_days_per_iteration(
                                                  Value(a.frequency))
                                 /\ current_date' = sd
                                 /\ periods' = NewPeriods(periods)
                                 /\ pc' = "split_loop"
                                 /\ UNCHANGED << split_returned, idx, tries,
                                        attempt_no, frames, calls, served,
                                        ncalls, nfailed, slept, result,
                                        error >>
                            [] fc = "ValueError" ->
                                 /\ pc' = "raised"
                                 /\ error' = Exception("ValueError",
                                        << "Unsupported frequency: ",
                                           Value(a.frequency) >>, 0, 0)
                                 /\ UNCHANGED << period, current_date,
                                        periods, split_returned, retryVars,
                                        result >>

(* -------------------------- @retry(tries=5) ---------------------------- *)
\* variant of Failed that raises the first failure to the caller
FailedNoRetry(exc) ==
    /\ tries' = tries - 1
    /\ pc' = "raised"
    /\ error' = exc

\* retry: the except branch.  _tries -= 1; raise when none is left, else
\* go to time.sleep
Failed(exc) ==
    /\ tries' = tries - 1
    /\ IF tries - 1 = 0
       THEN /\ pc' = "raised"
            /\ error' = exc
       ELSE /\ pc' = "sleep"
            /\ UNCHANGED error

\* variant of CallDates in which a call outside the list comprehension asks
\* for the first day only
CallDatesFirstDayOnly ==
    IF handler = "fetch_historical_data_high_freq"
    THEN ChunkArgs(periods, idx)
    ELSE << start_date, start_date >>

\* the (start_date, end_date) of this invocation of the decorated method
CallDates ==
    IF handler = "fetch_historical_data_high_freq"
    THEN ChunkArgs(periods, idx)
    ELSE << start_date, end_date >>

\* retry invokes the decorated method, which evaluates the arguments of the
\* provider call (convert_symbol, convert_date / strftime) and issues it; an
\* argument that is None raises AttributeError inside the retried body
Attempt ==
    /\ pc = "attempt"
    /\ attempt_no' = attempt_no + 1
    /\ IF IsNone(args.symbol)
       THEN /\ Failed(Exception("AttributeError", << "startswith" >>,
                                idx, attempt_no + 1))
            /\ UNCHANGED << calls, ncalls >>
       ELSE IF IsNone(CallDates[1]) \/ IsNone(CallDates[2])
       THEN /\ Failed(Exception("AttributeError", << "strftime" >>,
                                idx, attempt_no + 1))
            /\ UNCHANGED << calls, ncalls >>
       ELSE /\ ncalls' = ncalls + 1
            /\ calls' = Append(calls,
                   [ chunk |-> idx,
                     request |-> ProviderRequest(handler, Value(args.symbol),
                                     args.frequency, Value(CallDates[1]),
                                     Value(CallDates[2])),
                     status |-> "pending" ])
            /\ pc' = "inflight"
            /\ UNCHANGED << tries, error >>
    /\ UNCHANGED << caller, args, splitVars, handler, idx, frames, served,
                    nfailed, slept, now_read, result, callVars >>

SetStatus(cs, st) == [ cs EXCEPT ![Len(cs)].status = st ]

\* the provider call, or the processing of its response, raises
ProviderRaise ==
    /\ pc = "inflight"
    /\ calls' = SetStatus(calls, "failed")
    /\ nfailed' = nfailed + 1
    /\ Failed(Exception("ProviderError", << "provider" >>, idx, attempt_no))
    /\ UNCHANGED << caller, args, splitVars, handler, idx, attempt_no, frames,
                    served, ncalls, slept, now_read, result, callVars >>

\* the provider call returns; the decorated method sorts the rows and
\* returns the frame; fetch returns it, or the list comprehension goes on to
\* the next chunk, or pd.concat builds the table
ProviderReturn ==
    /\ pc = "inflight"
    /\ served' = Append(served, calls[Len(calls)].request)
    /\ LET frame == Frame(handler,
                          ProviderResponse(calls[Len(calls)].request))
       IN  IF handler = "fetch_historical_data_high_freq"
           THEN /\ frames' = Append(frames, frame)
                /\ IF MoreChunks(periods, idx)
                   THEN /\ idx' = idx + 1
                        /\ tries' = RetryTries
                        /\ attempt_no' = 0
                        /\ calls' = << >>
                        /\ pc' = "attempt"
                        /\ UNCHANGED result
                   ELSE /\ result' = concat(Append(frames, frame))
                        /\ calls' = SetStatus(calls, "ok")
                        /\ pc' = "returned"
                        /\ UNCHANGED << idx, tries, attempt_no >>
           ELSE /\ result' = frame
                /\ calls' = SetStatus(calls, "ok")
                /\ pc' = "returned"
                /\ UNCHANGED << idx, tries, attempt_no, frames >>
    /\ UNCHANGED << caller, args, splitVars, handler, ncalls, nfailed, slept,
                    now_read, error, callVars >>

\* retry: time.sleep(delay) returns and the loop tries again
Sleep ==
    /\ pc = "sleep"
    /\ slept' = slept + RetryDelay
    /\ pc' = "attempt"
    /\ UNCHANGED << caller, args, splitVars, handler, idx, tries, attempt_no,
                    frames, calls, served, ncalls, nfailed, now_read, result,
                    error, callVars >>

(* --------------------------- convert_symbol ---------------------------- *)
\* a direct call TushareDataSource.convert_symbol(symbol): lines 20-25
ConvertSymbolCall ==
    /\ pc = "idle"
    /\ \E symbol \in SymbolTexts :
         /\ args' = << symbol >>
         /\ result' = convert_symbol(symbol)
    /\ caller' = "convert_symbol"
    /\ pc' = "returned"
    /\ UNCHANGED << splitVars, retryVars, now_read, error, callVars >>

Next ==
    \/ SplitCall
    \/ SplitCallAgain
    \/ SplitIter
    \/ SplitReturn
    \/ ConvertSymbolCall
    \/ Fetch
    \/ Attempt
    \/ ProviderRaise
    \/ ProviderReturn
    \/ Sleep

Spec == Init /\ [][Next]_vars

\* the steps inside a call, between its entry and its return or raise
Running ==
    \/ SplitIter
    \/ SplitReturn
    \/ Attempt
    \/ ProviderRaise
    \/ ProviderReturn
    \/ Sleep

\* the one caller is a synchronous thread that keeps running: inside a call
\* a step that is possible is eventually taken (the loop goes on, a provider
\* call returns or raises, a sleep ends); nothing obliges it to call again
FairSpec == Spec /\ WF_vars(Running)

(* ============================== claims ================================= *)
HighFreq == caller = "fetch" /\ handler = "fetch_historical_data_high_freq"

\* the days a provider request asks for
FirstDay(req) ==
    IF req.api = "pro_bar" THEN to_datetime_Ymd(req.start_date[1])
    ELSE to_datetime_Ymd(req.start_date)
LastDay(req) ==
    IF req.api = "pro_bar" THEN to_datetime_Ymd(req.end_date[1])
    ELSE to_datetime_Ymd(req.end_date)

FailedCalls == { k \in 1 .. Len(calls) : calls[k].status = "failed" }

\* C1: once split_date_range has returned for start <= end, the sequence is
\* non-empty, its first range starts at start, its last range ends at end,
\* every later range starts one day after the previous one ends, and every
\* day of [start, end] lies in exactly one range.
C1_SplitCoversExactly ==
    (split_returned /\ Value(start_date) <= Value(end_date)) =>
        LET s == Value(start_date)
            e == Value(end_date)
            n == Len(periods)
        IN  /\ n >= 1
            /\ periods[1][1] = s
            /\ periods[n][2] = e
            /\ \A i \in 1 .. n - 1 : periods[i + 1][1] = periods[i][2] + 1
            /\ \A d \in s .. e :
                 Cardinality({ i \in 1 .. n :
                     periods[i][1] <= d /\ d <= periods[i][2] }) = 1

C1_Witness ==
    /\ split_returned
    /\ caller = "split"
    /\ period >= 1
    /\ Len(periods) >= 3

\* C2: once split_date_range has returned for start <= end with
\* end - start <= period, the sequence is the single range (start, end);
\* this includes start = end.
C2_SingleRange ==
    (/\ split_returned
     /\ Value(start_date) <= Value(end_date)
     /\ Value(end_date) - Value(start_date) <= period) =>
        periods = << << Value(start_date), Value(end_date) >> >>

C2_Witness ==
    /\ split_returned
    /\ caller = "split"
    /\ Value(start_date) < Value(end_date)
    /\ Value(end_date) - Value(start_date) < period

\* C3: a chunk is never attempted more than 5 times; fetch raises a provider
\* failure only when 5 calls for the chunk it is at have been issued and all
\* 5 have failed, the failure raised is that of the fifth attempt, and only
\* the chunks before it have been served (no later chunk was called); and 5
\* failed calls for a chunk end the fetch with that failure.
C3_ExactlyFiveAttempts ==
    /\ Len(calls) <= 5
    /\ \A k \in 1 .. Len(calls) : calls[k].chunk = idx
    /\ (pc = "raised" /\ error.type = "ProviderError") =>
          /\ error.attempt = 5
          /\ error.chunk = idx
          /\ Len(calls) = 5
          /\ Cardinality(FailedCalls) = 5
          /\ Len(served) = idx - 1
    /\ Cardinality(FailedCalls) = 5 =>
          /\ pc = "raised"
          /\ error.type = "ProviderError"
          /\ error.chunk = idx

C3_Witness ==
    /\ pc = "raised"
    /\ error.type = "ProviderError"
    /\ error.chunk < Len(periods)

\* the table of a complete fetch: the frames of all the ranges of the plan
ExpectedTable ==
    concat([ i \in 1 .. Len(periods) |->
               Frame(handler,
                     ProviderResponse(
                         ProviderRequest(handler, Value(args.symbol),
                             args.frequency, periods[i][1],
                             periods[i][2]))) ])

\* C4: an intraday fetch hands a table to its caller only when it returns,
\* and the table then holds the frames of every chunk of the plan; a fetch
\* that raised hands out no table.
C4_CompleteOrFailure ==
    HighFreq =>
        /\ pc = "returned" =>
              /\ Len(frames) = Len(periods)
              /\ result = ExpectedTable
        /\ pc # "returned" => result = << >>

C4_Witness ==
    /\ HighFreq
    /\ pc = "raised"
    /\ Len(frames) >= 1
    /\ Len(frames) < Len(periods)

\* C5: in an intraday fetch at most one provider call is pending and it is
\* the latest one; every call asks for the days of the range the list
\* comprehension is at; a call for a range is issued only when each range
\* before it has been served, in order, by a call for its own days; and a
\* fetch that returned without a failed call issued exactly one call per
\* range.
C5_SequentialCalls ==
    HighFreq =>
        /\ \A k \in 1 .. Len(calls) :
              /\ calls[k].status = "pending" =>
                    (k = Len(calls) /\ pc = "inflight")
              /\ calls[k].chunk = idx
              /\ FirstDay(calls[k].request) = periods[idx][1]
              /\ LastDay(calls[k].request) = periods[idx][2]
        /\ calls # << >> => Len(served) >= idx - 1
        /\ Len(served) <= Len(periods)
        /\ \A i \in 1 .. Len(served) :
              /\ FirstDay(served[i]) = periods[i][1]
              /\ LastDay(served[i]) = periods[i][2]
        /\ (pc = "returned" /\ nfailed = 0) => ncalls = Len(periods)

C5_Witness ==
    /\ HighFreq
    /\ pc = "returned"
    /\ nfailed = 0
    /\ Len(periods) >= 2

StrictlyAscending(table) ==
    \A i \in 1 .. Len(table) - 1 :
        \/ table[i].date < table[i + 1].date
        \/ /\ table[i].date = table[i + 1].date
           /\ table[i].time < table[i + 1].time

\* C6: the table of a multi-chunk intraday fetch that returned is strictly
\* ascending by (date, time), so no key occurs twice, and every day of
\* [start_date, end_date] lies in the window of a successful provider call.
C6_AscendingAcrossChunks ==
    (HighFreq /\ pc = "returned" /\ Len(periods) >= 2) =>
        /\ StrictlyAscending(result)
        /\ \A d \in Value(start_date) .. Value(end_date) :
              \E i \in 1 .. Len(served) :
                 FirstDay(served[i]) <= d /\ d <= LastDay(served[i])

C6_Witness ==
    /\ HighFreq
    /\ pc = "returned"
    /\ Len(periods) >= 2
    /\ \A i \in 1 .. Len(frames) : Len(frames[i]) >= 2

NothingTried ==
    /\ ncalls = 0
    /\ calls = << >>
    /\ attempt_no = 0
    /\ slept = 0
    /\ handler = "none"

\* C7: a fetch whose symbol is omitted issues no provider call, never
\* sleeps between attempts, never makes a second attempt and returns nothing.
C7_MissingSymbolNotRetried ==
    (caller = "fetch" /\ IsNone(args.symbol)) =>
        /\ ncalls = 0
        /\ slept = 0
        /\ attempt_no <= 1
        /\ pc # "sleep"
        /\ pc # "returned"

\* C8: a fetch of a dataset other than history, ohlcv and adjust_factor has
\* raised a ValueError whose message names the dataset, with no decorated
\* method entered, no provider call and no sleep.
C8_UnsupportedDataset ==
    (caller = "fetch"
        /\ args.dataset \notin {"history", "ohlcv", "adjust_factor"}) =>
        /\ pc = "raised"
        /\ error.type = "ValueError"
        /\ error.msg = << "unsupported dataset: ", args.dataset >>
        /\ NothingTried

C8_Witness ==
    /\ caller = "fetch"
    /\ args.dataset = "nonexistent"
    /\ ~ IsNone(args.symbol)
    /\ pc = "raised"

SupportedFrequencies == {"daily", "1min", "5min", "15min", "30min", "60min"}

UnsupportedFrequencyRaised ==
    /\ pc = "raised"
    /\ error.type = "ValueError"
    /\ error.msg = << "Unsupported frequency: ", Value(args.frequency) >>
    /\ periods = << >>
    /\ ~ split_returned
    /\ NothingTried

\* C9 as stated: a fetch of history/ohlcv with a symbol and a frequency
\* string outside the supported set has raised the unsupported-frequency
\* ValueError, with no range split, no provider call and no retry.
C9_UnsupportedFrequency_Original ==
    (/\ caller = "fetch"
     /\ args.dataset \in {"history", "ohlcv"}
     /\ ~ IsNone(args.symbol)
     /\ ~ IsNone(args.frequency)
     /\ Value(args.frequency) \notin SupportedFrequencies) =>
        UnsupportedFrequencyRaised

\* C9 as amended: the same, for a fetch that supplies neither fields nor
\* trade_date.
C9_UnsupportedFrequency ==
    (/\ caller = "fetch"
     /\ args.dataset \in {"history", "ohlcv"}
     /\ ~ IsNone(args.symbol)
     /\ IsNone(args.fields)
     /\ IsNone(args.trade_date)
     /\ ~ IsNone(args.frequency)
     /\ Value(args.frequency) \notin SupportedFrequencies) =>
        UnsupportedFrequencyRaised

C9_Witness ==
    /\ caller = "fetch"
    /\ args.dataset = "history"
    /\ args.frequency = Some("3min")
    /\ ~ IsNone(args.symbol)
    /\ ~ IsNone(args.start_date)
    /\ IsNone(args.fields)
    /\ IsNone(args.trade_date)
    /\ pc = "raised"

\* C10: in a fetch with a symbol that reaches a dataset handler with
\* start_date or end_date omitted, no AttributeError (a None used as a date)
\* is raised to the caller; with start_date omitted the calls for the first
\* chunk begin on 2010-01-01; with end_date omitted the clock has been read
\* and the calls for the last chunk end on the day of that reading.
C10_OmittedDatesDefaulted ==
    (/\ caller = "fetch"
     /\ handler # "none"
     /\ ~ IsNone(args.symbol)
     /\ (IsNone(args.start_date) \/ IsNone(args.end_date))) =>
        /\ pc = "raised" => error.type # "AttributeError"
        /\ (IsNone(args.start_date) /\ idx = 1) =>
              \A k \in 1 .. Len(calls) :
                 FirstDay(calls[k].request) = days_from_civil(2010, 1, 1)
        /\ (IsNone(args.end_date) /\ calls # << >>) =>
              /\ ~ IsNone(now_read)
              /\ \A k \in 1 .. Len(calls) :
                    (handler = "fetch_historical_data_high_freq"
                        => idx = Len(periods))
                    => LastDay(calls[k].request) = Value(now_read) \div 1440

\* the minutes M of the frequency of the fetch
FetchMinutes ==
    CASE args.frequency = Some("1min") -> 1
      [] args.frequency = Some("5min") -> 5
      [] args.frequency = Some("15min") -> 15
      [] args.frequency = Some("30min") -> 30
      [] args.frequency = Some("60min") -> 60

\* C11: in an intraday fetch of M-minute bars the period handed to
\* split_date_range is floor(10000 / (240 / M)) days, the largest p with
\* p * 240 <= 10000 * M: 41, 208, 625, 1250 and 2500 days for 1, 5, 15, 30
\* and 60 minutes.
C11_ChunkPeriod ==
    HighFreq =>
        /\ period * 240 <= 10000 * FetchMinutes
        /\ (period + 1) * 240 > 10000 * FetchMinutes
        /\ args.frequency = Some("1min") => period = 41
        /\ args.frequency = Some("5min") => period = 208
        /\ args.frequency = Some("15min") => period = 625
        /\ args.frequency = Some("30min") => period = 1250
        /\ args.frequency = Some("60min") => period = 2500

C11_Witness ==
    /\ HighFreq
    /\ args.frequency = Some("5min")
    /\ period = 208
    /\ split_returned

\* the table of the run in which no attempt fails: one call per range of
\* the plan (intraday), or one call for (start_date, end_date)
NoFailureTable ==
    IF handler = "fetch_historical_data_high_freq"
    THEN ExpectedTable
    ELSE Frame(handler,
               ProviderResponse(
                   ProviderRequest(handler, Value(args.symbol),
                       args.frequency, Value(start_date), Value(end_date))))

\* C12: a fetch that reached the provider raises a provider failure only
\* when the chunk it is at has failed 5 times; otherwise, whatever attempts
\* failed before, it goes on, and when it returns it reports no failure, has
\* collected exactly one frame per range of the plan, each the frame of that
\* range, and returns the table of the run in which no attempt fails.
C12_RetriesTransparent ==
    (caller = "fetch" /\ ncalls >= 1) =>
        /\ pc = "raised" =>
              /\ error.type = "ProviderError"
              /\ Len(calls) = 5
              /\ \A k \in 1 .. 5 : calls[k].status = "failed"
        /\ pc = "returned" =>
              /\ error = NoException
              /\ result = NoFailureTable
              /\ HighFreq =>
                    /\ Len(frames) = Len(periods)
                    /\ \A i \in 1 .. Len(periods) :
                          frames[i] =
                            Frame(handler, ProviderResponse(
                                ProviderRequest(handler, Value(args.symbol),
                                    args.frequency, periods[i][1],
                                    periods[i][2])))

C12_Witness ==
    /\ HighFreq
    /\ pc = "returned"
    /\ Len(periods) >= 2
    /\ nfailed >= 5
    /\ result # << >>

\* C13: a direct convert_symbol call returns for every symbol, the empty
\* text included: the result is the symbol followed by three characters,
\* which are .SH when the first character of the symbol is "6" and .SZ for
\* every other symbol, so the suffix is a function of the first character.
C13_ConvertSymbolTotal ==
    (caller = "convert_symbol") =>
        LET symbol == args[1]
            suffix == SubSeq(result, Len(symbol) + 1, Len(result))
        IN  /\ pc = "returned"
            /\ Len(result) = Len(symbol) + 3
            /\ SubSeq(result, 1, Len(symbol)) = symbol
            /\ (symbol # << >> /\ Head(symbol) = "6") =>
                  suffix = << ".", "S", "H" >>
            /\ (symbol = << >> \/ Head(symbol) # "6") =>
                  suffix = << ".", "S", "Z" >>

C13_Witness ==
    /\ caller = "convert_symbol"
    /\ pc = "returned"
    /\ args = << << >> >>
    /\ result = << ".", "S", "Z" >>

\* C14: every row of the table a history fetch returns, daily or intraday,
\* carries 100 times the raw vol and 1000 times the raw amount the provider
\* reported for it.
C14_UnitsScaled ==
    (/\ caller = "fetch"
     /\ handler \in {"fetch_historical_data_daily",
                     "fetch_historical_data_high_freq"}
     /\ pc = "returned") =>
        \A i \in 1 .. Len(result) :
            /\ result[i].volume = 100 * raw_vol(result[i].date)
            /\ result[i].amount = 1000 * raw_amount(result[i].date)

\* C15: the window of every provider call of an intraday fetch of M-minute
\* bars covers, counting its first and its last day, at most
\* floor(10000 / (240 / M)) calendar days, so at 240 / M bars a day it holds
\* at most 10000 bars.
C15_ChunkWithinLimit ==
    HighFreq =>
        \A k \in 1 .. Len(calls) :
            LET days == LastDay(calls[k].request)
                          - FirstDay(calls[k].request) + 1
            IN  /\ days <= 10000 \div (240 \div FetchMinutes)
                /\ days * (240 \div FetchMinutes) <= 10000

\* C16: a direct split_date_range call with start > end never returns a
\* sequence, not even the empty one: once it has left its loop it has raised
\* an error to the caller.
C16_StartAfterEndIsError ==
    (/\ caller = "split"
     /\ Value(start_date) > Value(end_date)) =>
        /\ pc # "returned"
        /\ ~ split_returned
        /\ pc # "split_loop" => (pc = "raised" /\ error # NoException)

\* C17: in a daily fetch with start_date <= end_date every provider call,
\* first attempt or retry, asks for the one window (start_date, end_date),
\* whatever its length; no second chunk is ever started, and a fetch that
\* returned was served by exactly one call, for that window.
C17_DailySingleWindow ==
    (/\ caller = "fetch"
     /\ handler = "fetch_historical_data_daily"
     /\ Value(start_date) <= Value(end_date)) =>
        /\ idx = 1
        /\ \A k \in 1 .. Len(calls) :
              /\ calls[k].chunk = 1
              /\ FirstDay(calls[k].request) = Value(start_date)
              /\ LastDay(calls[k].request) = Value(end_date)
              /\ calls[k].request = calls[1].request
        /\ ncalls = Len(calls)
        /\ Len(served) <= 1
        /\ \A i \in 1 .. Len(served) : served[i] = calls[1].request
        /\ pc = "returned" => Len(served) = 1

C17_Witness ==
    /\ caller = "fetch"
    /\ handler = "fetch_historical_data_daily"
    /\ Value(end_date) - Value(start_date) > 2 * 41
    /\ pc = "returned"
    /\ Len(calls) >= 3

\* the call budget of an intraday fetch whose plan has n chunks: at most 5
\* calls per chunk reached so far and so at most 5 * n in all, at least n
\* when it has returned, and between two attempts for a chunk the attempts
\* made and the attempts left add up to 5, whatever failed for earlier chunks
CallBudget ==
    HighFreq =>
        LET n == Len(periods)
        IN  /\ ncalls <= 5 * n
            /\ idx >= 1 => ncalls <= 5 * (idx - 1) + Len(calls)
            /\ Len(calls) <= 5
            /\ pc = "returned" => ncalls >= n
            /\ pc \in {"attempt", "sleep"} => tries + attempt_no = 5
            /\ pc = "inflight" => tries + attempt_no = 5 + 1

FetchEnded == pc \in {"returned", "raised"}

\* C18: every fetch ends, by returning or by raising, whatever the provider
\* does; and an intraday fetch whose plan has n chunks keeps within the
\* call budget: at least n calls when it returns, never more than 5 * n,
\* with 5 attempts counted afresh for each chunk.
C18_FetchTerminates ==
    /\ [] CallBudget
    /\ (caller = "fetch") ~> FetchEnded

C18_Witness ==
    /\ HighFreq
    /\ pc = "returned"
    /\ Len(periods) >= 2
    /\ ncalls = 5 * Len(periods)

InSplit == pc = "split_loop" \/ split_returned

\* the ranges emitted so far by a split of [s, e] with s <= e in periods of
\* N days: each has start <= end and lies in [s, e], each but the latest
\* spans exactly N days and the latest at most N; after the return their
\* number is ceil((e - s + 1) / (N + 1))
RangesShape ==
    (InSplit /\ Value(start_date) <= Value(end_date)) =>
        LET s == Value(start_date)
            e == Value(end_date)
            n == Len(periods)
        IN  /\ \A i \in 1 .. n :
                  /\ periods[i][1] <= periods[i][2]
                  /\ s <= periods[i][1]
                  /\ periods[i][2] <= e
                  /\ periods[i][2] - periods[i][1] <= period
                  /\ i < n => periods[i][2] - periods[i][1] = period
            /\ split_returned =>
                  /\ n * (period + 1) >= e - s + 1
                  /\ (n - 1) * (period + 1) < e - s + 1
                  /\ n = (e - s + 1 + period) \div (period + 1)

\* an iteration of the loop moves the cursor forward
CursorIncreases ==
    (pc = "split_loop" /\ pc' = "split_loop") =>
        (current_date' > current_date /\ Len(periods') = Len(periods) + 1)

\* C19: for start <= end and a period of N >= 0 days the loop of
\* split_date_range ends: every iteration moves the cursor forward, the
\* ranges emitted have start <= end, lie in [start, end], span exactly N
\* days except the last, which spans at most N, and their number is
\* ceil((end - start + 1) / (N + 1)).
C19_SplitLoopTerminates ==
    /\ [][CursorIncreases]_vars
    /\ [] RangesShape
    /\ (pc = "split_loop") ~> (pc # "split_loop" /\ split_returned)

C19_Witness ==
    /\ caller = "split"
    /\ split_returned
    /\ period >= 2
    /\ Len(periods) >= 2
    /\ periods[Len(periods)][2] - periods[Len(periods)][1] < period

\* a later direct call with the arguments of the first call has returned
\* what the first call returned
SameAsFirstCall ==
    (/\ caller = "split"
     /\ pc = "returned"
     /\ ~ IsNone(first_call)
     /\ args = Value(first_call).args) =>
        result = Value(first_call).result

\* a step of a direct split_date_range call touches nothing but its own
\* arguments, locals and result
SplitTouchesOnlyItsOwn ==
    (caller' = "split") => UNCHANGED << retryVars, now_read, error >>

\* C20: of several direct split_date_range calls in a row, every call with
\* the arguments of the first returns the sequence the first returned,
\* whatever calls were made in between; and the steps of a call change
\* nothing outside the call.
C20_SplitDeterministic ==
    /\ [] SameAsFirstCall
    /\ [][SplitTouchesOnlyItsOwn]_vars

C20_Witness ==
    /\ caller = "split"
    /\ pc = "returned"
    /\ nsplit = 3
    /\ ~ IsNone(first_call)
    /\ args = Value(first_call).args
    /\ Len(result) >= 2

====
